---- MODULE Spec2Model ----
(***************************************************************************)
(* A model of the mixpanel client (src/mixpanel.go): the construction of   *)
(* the parameter maps by Track, Update and Alias, the shared send routine  *)
(* (serialise, build the URL, one POST, decode the response), and the      *)
(* in-memory Mock that records Update and Track calls.                     *)
(***************************************************************************)
EXTENDS Integers, Sequences, FiniteSets, TLC

(***************************************************************************)
(* Bounds of the model.                                                    *)
(***************************************************************************)
\* the clock advances at most this many seconds past its initial value, and
\* explicit timestamps lie at most this many seconds after the model's epoch
MaxClock == 1
\* sub-second part (nanoseconds) of an explicit timestamp: 0..MaxNsec
MaxNsec == 1
\* the Mock is exercised with at most this many calls
MaxMockCalls == 3

(***************************************************************************)
(* Time: an instant is seconds + nanoseconds, as in Go's time.Time.        *)
(***************************************************************************)
\* time.Hour, in seconds
Hour == 3600

\* time.Hour * 24 * 5 (the code adds its negation to time.Now())
FiveDays == Hour * 24 * 5

Time(s, n) == [sec |-> s, nsec |-> n]

\* time.Time{}: year 1, before every instant of the model's timeline
ZeroTime == Time(0 - 1, 0)

\* t.Unix(): whole seconds, the sub-second part is dropped
Unix(t) == t.sec

\* t.Before(u): strict
Before(t, u) == t.sec < u.sec \/ (t.sec = u.sec /\ t.nsec < u.nsec)

\* t.Add(d) for a duration of d whole seconds
Add(t, d) == Time(t.sec + d, t.nsec)

\* *time.Time values: nil, the IgnoreTime pointer, or any other pointer
NilTime == [ptr |-> "nil"]
IgnoreTime == [ptr |-> "IgnoreTime", t |-> ZeroTime]
PtrTo(t) == [ptr |-> "other", t |-> t]

ExplicitTimes == {Time(s, n) : s \in 0..MaxClock, n \in 0..MaxNsec} \cup {ZeroTime}
Timestamps == {NilTime, IgnoreTime} \cup {PtrTo(t) : t \in ExplicitTimes}

(***************************************************************************)
(* interface{} values held in the parameter maps.                          *)
(***************************************************************************)
Str(s) == [str |-> s]
Num(n) == [int |-> n]
Bool(b) == [bool |-> b]
Map(f) == [map |-> f]
\* a value json.Marshal rejects (a channel, a func, NaN, ...)
Chan == [unsupported |-> "chan"]

EmptyMap == [k \in {} |-> Chan]

\* m[k] = v on a Go map
Put(m, k, v) == [x \in DOMAIN m \cup {k} |-> IF x = k THEN v ELSE m[x]]

\* for key, value := range src { dst[key] = value }
Merge(dst, src) == [x \in DOMAIN dst \cup DOMAIN src |-> IF x \in DOMAIN src THEN src[x] ELSE dst[x]]

Has(m, k) == k \in DOMAIN m

IsMap(v) == "map" \in DOMAIN v

(***************************************************************************)
(* The client: configuration and the inputs the calls are exercised with.  *)
(***************************************************************************)
DefaultApiURL == "https://api.mixpanel.com"

\* a base URL url.Parse rejects (a space in the host name)
MalformedApiURL == "http://bad host"

Tokens == {"tok"}
ApiURLArgs == {"", MalformedApiURL}
DistinctIds == {"1", "2"}
EventNames == {"Sign In"}
IPs == {"", "0", "1.2.3.4"}
Operations == {"$set", "$time", "$ignore_time", "$token"}

\* map[string]interface{} over the given keys
MapsOver(keys, values) == UNION {[d -> values] : d \in SUBSET keys}

EventProperties ==
  {Merge(a, b) : a \in MapsOver({"from"}, {Str("email"), Chan}),
                 b \in MapsOver({"token"}, {Str("other")})}
UpdateProperties == MapsOver({"custom_field"}, {Str("cool!"), Chan})

Events == [IP : IPs, Timestamp : Timestamps, Properties : EventProperties]
Updates == [IP : IPs, Timestamp : Timestamps, Operation : Operations, Properties : UpdateProperties]

\* NewFromClient: a blank apiURL selects the default
NewFromClient(token, apiURL) ==
  [Token |-> token, ApiURL |-> IF apiURL = "" THEN DefaultApiURL ELSE apiURL]

(***************************************************************************)
(* Parameter maps.                                                         *)
(***************************************************************************)
\* as AliasParams, with the token left out of the properties
AliasParamsNoToken(m, distinctId, newId) ==
  LET props == Put(Put(EmptyMap, "distinct_id", Str(distinctId)), "alias", Str(newId))
  IN Put(Put(EmptyMap, "event", Str("$create_alias")), "properties", Map(props))

\* Alias: the properties and the params wrapper
AliasParams(m, distinctId, newId) ==
  LET props == Put(Put(Put(EmptyMap, "token", Str(m.Token)), "distinct_id", Str(distinctId)),
                   "alias", Str(newId))
  IN Put(Put(EmptyMap, "event", Str("$create_alias")), "properties", Map(props))

\* Track: props seeded with token and distinct_id, then ip, time, then the
\* custom properties written over them
TrackProps(m, distinctId, e) ==
  LET p0 == Put(Put(EmptyMap, "token", Str(m.Token)), "distinct_id", Str(distinctId))
      p1 == IF e.IP # "" THEN Put(p0, "ip", Str(e.IP)) ELSE p0
      p2 == IF e.Timestamp.ptr # "nil" THEN Put(p1, "time", Num(Unix(e.Timestamp.t))) ELSE p1
  IN Merge(p2, e.Properties)

TrackParams(m, distinctId, eventName, e) ==
  Put(Put(EmptyMap, "event", Str(eventName)), "properties", Map(TrackProps(m, distinctId, e)))

\* as TrackEventType, with "not after" in place of "before"
TrackEventTypeInclusive(e, clock) ==
  IF e.Timestamp.ptr # "nil" /\ ~Before(Add(clock, 0 - FiveDays), e.Timestamp.t)
  THEN "import" ELSE "track"

\* Track: "import" when the timestamp is set and before now - 5 days
TrackEventType(e, clock) ==
  IF e.Timestamp.ptr # "nil" /\ Before(e.Timestamp.t, Add(clock, 0 - FiveDays))
  THEN "import" ELSE "track"

\* as TrackAutoGeolocate, reading the documented "0" as no address too
TrackAutoGeolocateZero(e) == e.IP \in {"", "0"}

TrackAutoGeolocate(e) == e.IP = ""

\* as UpdateParams, recognising IgnoreTime by the time it points to instead
\* of by the pointer
UpdateParamsByValue(m, distinctId, u) ==
  LET p0 == Put(Put(EmptyMap, "$token", Str(m.Token)), "$distinct_id", Str(distinctId))
      p1 == IF u.IP # "" THEN Put(p0, "$ip", Str(u.IP)) ELSE p0
      p2 == IF u.Timestamp.ptr # "nil" /\ u.Timestamp.t = ZeroTime
            THEN Put(p1, "$ignore_time", Bool(TRUE))
            ELSE IF u.Timestamp.ptr # "nil" THEN Put(p1, "$time", Num(Unix(u.Timestamp.t)))
            ELSE p1
  IN Put(p2, u.Operation, Map(u.Properties))

\* Update: $token, $distinct_id, then $ip, then $ignore_time or $time, and
\* last the entry keyed by the operation name
UpdateParams(m, distinctId, u) ==
  LET p0 == Put(Put(EmptyMap, "$token", Str(m.Token)), "$distinct_id", Str(distinctId))
      p1 == IF u.IP # "" THEN Put(p0, "$ip", Str(u.IP)) ELSE p0
      p2 == IF u.Timestamp.ptr = "IgnoreTime" THEN Put(p1, "$ignore_time", Bool(TRUE))
            ELSE IF u.Timestamp.ptr # "nil" THEN Put(p1, "$time", Num(Unix(u.Timestamp.t)))
            ELSE p1
  IN Put(p2, u.Operation, Map(u.Properties))

UpdateAutoGeolocate(u) == u.IP = ""

(***************************************************************************)
(* send: serialisation and the request URL.                                *)
(***************************************************************************)
RECURSIVE Marshallable(_)
\* json.Marshal succeeds iff no value reachable from v is unsupported
Marshallable(v) ==
  IF "unsupported" \in DOMAIN v THEN FALSE
  ELSE IF IsMap(v) THEN \A k \in DOMAIN v.map : Marshallable(v.map[k])
  ELSE TRUE

RECURSIVE ToJSON(_)
\* the JSON document json.Marshal writes for a supported value
ToJSON(v) ==
  IF IsMap(v) THEN [jobject |-> [k \in DOMAIN v.map |-> ToJSON(v.map[k])]]
  ELSE IF "str" \in DOMAIN v THEN [jstring |-> v.str]
  ELSE IF "int" \in DOMAIN v THEN [jnumber |-> v.int]
  ELSE [jbool |-> v.bool]

MarshalErrText == "json: unsupported type: chan int"

\* json.Marshal(params)
Marshal(params) ==
  IF Marshallable(Map(params))
  THEN [err |-> "", data |-> ToJSON(Map(params))]
  ELSE [err |-> MarshalErrText, data |-> [jnull |-> TRUE]]

\* base64.StdEncoding.EncodeToString
to64(data) == [b64 |-> data]

\* a literal piece of the URL string
Lit(s) == [lit |-> s]

\* reqUrl: the concatenation, kept as the sequence of the pieces concatenated
ReqUrl(m, eventType, data, autoGeolocate) ==
  LET u0 == <<Lit(m.ApiURL), Lit("/"), Lit(eventType), Lit("?data="), to64(data)>>
      u1 == IF autoGeolocate THEN Append(u0, Lit("&ip=1")) ELSE u0
  IN Append(u1, Lit("&verbose=1"))

NoUrl == << >>

\* http.NewRequest returns (nil, err) when the URL does not parse
NewRequestFails(reqUrl) == reqUrl[1] = Lit(MalformedApiURL)

(***************************************************************************)
(* Results of a call.                                                      *)
(***************************************************************************)
NoRet == [kind |-> "none"]
NilError == [kind |-> "nil"]
PlainError(msg) == [kind |-> "error", msg |-> msg]
MixpanelError(url, message, httpStatus, code) ==
  [kind |-> "MixpanelError", URL |-> url, Message |-> message,
   HttpStatus |-> httpStatus, Code |-> code]

\* as wrapErr, without the URL
wrapErrNoURL(reqUrl, msg) == MixpanelError(NoUrl, msg, 0, 0)

\* wrapErr: only URL and Message are set
wrapErr(reqUrl, msg) == MixpanelError(reqUrl, msg, 0, 0)

\* as SendStart, with the serialisation error ignored the way the error of
\* http.NewRequest is
SendStartIgnoringMarshalErr(m, eventType, params, autoGeolocate) ==
  LET js == Marshal(params)
      url == ReqUrl(m, eventType, js.data, autoGeolocate)
  IN IF NewRequestFails(url)
     THEN [pc |-> "panicked", ret |-> NoRet, reqUrl |-> url, issued |-> 0]
     ELSE [pc |-> "inDo", ret |-> NoRet, reqUrl |-> url, issued |-> 1]

\* as SendStart, with the serialisation error wrapped like the later ones
SendStartWrappingMarshalErr(m, eventType, params, autoGeolocate) ==
  LET js == Marshal(params)
      url == ReqUrl(m, eventType, js.data, autoGeolocate)
  IN IF js.err # ""
     THEN [pc |-> "returned", ret |-> wrapErr(NoUrl, js.err), reqUrl |-> NoUrl, issued |-> 0]
     ELSE IF NewRequestFails(url)
     THEN [pc |-> "panicked", ret |-> NoRet, reqUrl |-> url, issued |-> 0]
     ELSE [pc |-> "inDo", ret |-> NoRet, reqUrl |-> url, issued |-> 1]

\* send up to the point where the request is handed to the transport:
\* the call has returned (serialisation failed), has panicked (req is nil
\* and req.SetBasicAuth dereferences it), or waits in Client.Do with one
\* request issued
SendStart(m, eventType, params, autoGeolocate) ==
  LET js == Marshal(params)
      url == ReqUrl(m, eventType, js.data, autoGeolocate)
  IN IF js.err # ""
     THEN [pc |-> "returned", ret |-> PlainError(js.err), reqUrl |-> NoUrl, issued |-> 0]
     ELSE IF NewRequestFails(url)
     THEN [pc |-> "panicked", ret |-> NoRet, reqUrl |-> url, issued |-> 0]
     ELSE [pc |-> "inDo", ret |-> NoRet, reqUrl |-> url, issued |-> 1]

(***************************************************************************)
(* What the transport hands back from Client.Do, and response bodies.      *)
(***************************************************************************)
TransportErrs == {"dial tcp: connection refused"}
ReadErrs == {"unexpected EOF"}
HttpStatuses == {200, 500}

\* JSON values a response object may hold under "error" and "status"
JNum(n) == [jnumber |-> n]
JStr(x) == [jstring |-> x]
FieldKeys == {"error", "status"}
FieldValues(k) == IF k = "error" THEN {JStr("msg"), JNum(0)}
                  ELSE {JNum(0), JNum(1), JNum(2), JStr("1")}

\* the members of a JSON object, in document order, keys distinct
Members == UNION {{[key |-> k, val |-> v] : v \in FieldValues(k)} : k \in FieldKeys}
ObjectFields ==
  {<< >>} \cup {<<a>> : a \in Members}
  \cup {p \in Members \X Members : p[1].key # p[2].key}

\* bodies: zero bytes, bytes that are not JSON, the JSON texts null and [],
\* and JSON objects
EmptyBody == [doc |-> "empty", fields |-> << >>]
Bodies ==
  {EmptyBody} \cup {[doc |-> d, fields |-> << >>] : d \in {"invalid", "null", "array"}}
  \cup {[doc |-> "object", fields |-> f] : f \in ObjectFields}

BodyLen(body) == IF body.doc = "empty" THEN 0 ELSE 1

NoResp == [kind |-> "none"]
Outcomes ==
  {[kind |-> "transportError", err |-> x] : x \in TransportErrs}
  \cup {[kind |-> "bodyError", StatusCode |-> c, err |-> x] : c \in HttpStatuses, x \in ReadErrs}
  \cup {[kind |-> "response", StatusCode |-> c, body |-> b] : c \in HttpStatuses, b \in Bodies}

(***************************************************************************)
(* json.Unmarshal(body, serverErr) into {Message `json:"error"`,           *)
(* Code `json:"status"`}: a syntax error leaves the target untouched; a    *)
(* value of the wrong type is skipped, decoding goes on, and the earliest  *)
(* such error is returned.                                                 *)
(***************************************************************************)
SyntaxErrText == "invalid character '<' looking for beginning of value"
ArrayErrText == "json: cannot unmarshal array into Go value of type mixpanel.MixpanelError"
ErrorFieldErrText == "json: cannot unmarshal number into Go struct field MixpanelError.error of type string"
StatusFieldErrText == "json: cannot unmarshal string into Go struct field MixpanelError.status of type int"

\* one member of the object decoded into acc = [Message, Code, err]
DecodeField(acc, f) ==
  IF f.key = "error"
  THEN IF "jstring" \in DOMAIN f.val
       THEN [acc EXCEPT !.Message = f.val.jstring]
       ELSE [acc EXCEPT !.err = IF acc.err = "" THEN ErrorFieldErrText ELSE acc.err]
  ELSE IF "jnumber" \in DOMAIN f.val
       THEN [acc EXCEPT !.Code = f.val.jnumber]
       ELSE [acc EXCEPT !.err = IF acc.err = "" THEN StatusFieldErrText ELSE acc.err]

RECURSIVE DecodeFields(_, _)
DecodeFields(acc, fields) ==
  IF fields = << >> THEN acc
  ELSE DecodeFields(DecodeField(acc, Head(fields)), Tail(fields))

Unmarshal(body, target) ==
  LET acc == [Message |-> target.Message, Code |-> target.Code, err |-> ""]
  IN CASE body.doc = "invalid" -> [acc EXCEPT !.err = SyntaxErrText]
       [] body.doc = "null" -> acc
       [] body.doc = "array" -> [acc EXCEPT !.err = ArrayErrText]
       [] OTHER -> DecodeFields(acc, body.fields)

\* serverErr after the decoding step: nothing is decoded from an empty
\* body; a decode error replaces Message
ServerErr(body) ==
  LET zero == [Message |-> "", Code |-> 0]
      dec == Unmarshal(body, zero)
  IN IF BodyLen(body) > 0
     THEN [Message |-> IF dec.err # "" THEN dec.err ELSE dec.Message, Code |-> dec.Code]
     ELSE zero

\* as Rejected, deciding by the HTTP status code
RejectedByHttpStatus(serverErr, httpStatus) == httpStatus # 200

\* the test that decides between returning serverErr and returning nil
Rejected(serverErr, httpStatus) == serverErr.Code # 1

\* send from the return of Client.Do to the return of the call
SendFinish(url, outcome) ==
  IF outcome.kind = "transportError" THEN wrapErr(url, outcome.err)
  ELSE IF outcome.kind = "bodyError" THEN wrapErr(url, outcome.err)
  ELSE LET serverErr == ServerErr(outcome.body)
       IN IF Rejected(serverErr, outcome.StatusCode)
          THEN MixpanelError(url, serverErr.Message, outcome.StatusCode, serverErr.Code)
          ELSE NilError

(***************************************************************************)
(* State.                                                                  *)
(***************************************************************************)
VARIABLES
  m,              \* the client: Token, ApiURL
  now,            \* time.Now()
  pc,             \* "idle", "inDo" (blocked in Client.Do), "returned", "panicked"
  call,           \* the call in progress and its arguments
  eventType,      \* send's arguments
  params,
  autoGeolocate,
  reqUrl,         \* send's reqUrl
  issued,         \* requests the call has handed to the transport
  resp,           \* what Client.Do and ReadAll produced
  ret,            \* the error the call returned
  people,         \* the Mock's records, by distinct id
  ncalls          \* calls the Mock has taken

clientVars == <<m, now, pc, call, eventType, params, autoGeolocate, reqUrl, issued, resp, ret>>
vars == <<m, now, pc, call, eventType, params, autoGeolocate, reqUrl, issued, resp, ret, people, ncalls>>

NoCall == [op |-> "none"]

Init ==
  /\ m \in {NewFromClient(t, u) : t \in Tokens, u \in ApiURLArgs}
  /\ now = Time(FiveDays, 0)
  /\ pc = "idle"
  /\ call = NoCall
  /\ eventType = ""
  /\ params = EmptyMap
  /\ autoGeolocate = FALSE
  /\ reqUrl = NoUrl
  /\ issued = 0
  /\ resp = NoResp
  /\ ret = NoRet
  /\ people = EmptyMap
  /\ ncalls = 0

\* the clock advances between calls
Tick ==
  /\ pc = "idle"
  /\ now.sec < FiveDays + MaxClock
  /\ now' = Time(now.sec + 1, 0)
  /\ UNCHANGED <<m, pc, call, eventType, params, autoGeolocate, reqUrl, issued, resp, ret, people, ncalls>>

\* a call enters send with the given arguments
EnterSend(c, et, ps, geo) ==
  LET s == SendStart(m, et, ps, geo)
  IN /\ call' = c
     /\ eventType' = et
     /\ params' = ps
     /\ autoGeolocate' = geo
     /\ pc' = s.pc
     /\ ret' = s.ret
     /\ reqUrl' = s.reqUrl
     /\ issued' = s.issued
     /\ UNCHANGED <<m, now, resp, people, ncalls>>

Alias(distinctId, newId) ==
  /\ pc = "idle"
  /\ EnterSend([op |-> "Alias", distinctId |-> distinctId, newId |-> newId],
               "track", AliasParams(m, distinctId, newId), FALSE)

Track(distinctId, eventName, e) ==
  /\ pc = "idle"
  /\ EnterSend([op |-> "Track", distinctId |-> distinctId, eventName |-> eventName, e |-> e],
               TrackEventType(e, now), TrackParams(m, distinctId, eventName, e),
               TrackAutoGeolocate(e))

Update(distinctId, u) ==
  /\ pc = "idle"
  /\ EnterSend([op |-> "Update", distinctId |-> distinctId, u |-> u],
               "engage", UpdateParams(m, distinctId, u), UpdateAutoGeolocate(u))

\* Client.Do returns and send runs to its end
DoReturns(outcome) ==
  /\ pc = "inDo"
  /\ resp' = outcome
  /\ ret' = SendFinish(reqUrl, outcome)
  /\ pc' = "returned"
  /\ UNCHANGED <<m, now, call, eventType, params, autoGeolocate, reqUrl, issued, people, ncalls>>

\* the caller has the result; the call's locals are gone
Return ==
  /\ pc = "returned"
  /\ pc' = "idle"
  /\ call' = NoCall
  /\ eventType' = ""
  /\ params' = EmptyMap
  /\ autoGeolocate' = FALSE
  /\ reqUrl' = NoUrl
  /\ issued' = 0
  /\ resp' = NoResp
  /\ ret' = NoRet
  /\ UNCHANGED <<m, now, people, ncalls>>

Next ==
  \/ Tick
  \/ \E d \in DistinctIds, n \in DistinctIds : Alias(d, n)
  \/ \E d \in DistinctIds, n \in EventNames, e \in Events : Track(d, n, e)
  \/ \E d \in DistinctIds, u \in Updates : Update(d, u)
  \/ \E o \in Outcomes : DoReturns(o)
  \/ Return

Spec == Init /\ [][Next]_vars

(***************************************************************************)
(* The Mock: per distinct id, the last IP, the last timestamp, the merged  *)
(* properties and, per event name, the last event tracked.                 *)
(***************************************************************************)
MockIPs == {"", "127.0.0.1", "1.2.3.4"}
MockTimestamps == {NilTime, IgnoreTime, PtrTo(Time(0, 0)), PtrTo(Time(MaxClock, 0))}
MockEventNames == {"Sign In", "Sign Out"}
MockUpdateProperties ==
  {Put(EmptyMap, "custom_field", Str("cool!")),
   Put(Put(EmptyMap, "custom_field", Str("meh")), "plan", Str("pro"))}
MockUpdates ==
  [IP : MockIPs, Timestamp : MockTimestamps, Operation : {"$set"}, Properties : MockUpdateProperties]
MockEvents ==
  {[IP |-> "1.2.3.4", Timestamp |-> NilTime, Properties |-> Put(EmptyMap, "from", Str("email"))],
   [IP |-> "", Timestamp |-> PtrTo(Time(0, 0)), Properties |-> Put(EmptyMap, "from", Str("push"))]}

\* the record of a distinct id seen for the first time
NewPerson == [IP |-> "", Time |-> NilTime, Properties |-> EmptyMap, Events |-> EmptyMap]

\* the record of a distinct id, created if absent
Person(ps, distinctId) == IF Has(ps, distinctId) THEN ps[distinctId] ELSE NewPerson

\* Update on a record: IP if non-empty, timestamp if neither nil nor
\* IgnoreTime, properties merged key by key
MockUpdateRecord(p, u) ==
  [p EXCEPT !.IP = IF u.IP # "" THEN u.IP ELSE @,
            !.Time = IF u.Timestamp.ptr \notin {"nil", "IgnoreTime"} THEN u.Timestamp ELSE @,
            !.Properties = Merge(@, u.Properties)]

\* as MockTrackRecord, also taking the event's IP as the user's
MockTrackRecordWithIP(p, eventName, e) ==
  [p EXCEPT !.IP = IF e.IP # "" THEN e.IP ELSE @,
            !.Events = Put(@, eventName, [IP |-> e.IP, Timestamp |-> e.Timestamp,
                                          Properties |-> e.Properties])]

\* Track on a record: the sub-record under the event name is replaced
MockTrackRecord(p, eventName, e) ==
  [p EXCEPT !.Events = Put(@, eventName, [IP |-> e.IP, Timestamp |-> e.Timestamp,
                                          Properties |-> e.Properties])]

MockUpdate(distinctId, u) ==
  /\ ncalls < MaxMockCalls
  /\ people' = Put(people, distinctId, MockUpdateRecord(Person(people, distinctId), u))
  /\ ncalls' = ncalls + 1
  /\ UNCHANGED clientVars

MockTrack(distinctId, eventName, e) ==
  /\ ncalls < MaxMockCalls
  /\ people' = Put(people, distinctId, MockTrackRecord(Person(people, distinctId), eventName, e))
  /\ ncalls' = ncalls + 1
  /\ UNCHANGED clientVars

\* Alias records nothing
MockAlias(distinctId, newId) ==
  /\ ncalls < MaxMockCalls
  /\ ncalls' = ncalls + 1
  /\ UNCHANGED <<people, m, now, pc, call, eventType, params, autoGeolocate, reqUrl, issued, resp, ret>>

MockInit == Init /\ m = NewFromClient("tok", "")

MockNext ==
  \/ \E d \in DistinctIds, u \in MockUpdates : MockUpdate(d, u)
  \/ \E d \in DistinctIds, n \in MockEventNames, e \in MockEvents : MockTrack(d, n, e)
  \/ \E d \in DistinctIds, n \in DistinctIds : MockAlias(d, n)

MockSpec == MockInit /\ [][MockNext]_vars

(***************************************************************************)
(* Properties of the client.                                               *)
(***************************************************************************)
\* the status a response body carries: the integer under "status" of a JSON
\* object, 0 when there is none
StatusIn(body) ==
  IF \E i \in DOMAIN body.fields :
       body.fields[i].key = "status" /\ "jnumber" \in DOMAIN body.fields[i].val
  THEN LET i == CHOOSE j \in DOMAIN body.fields :
                  body.fields[j].key = "status" /\ "jnumber" \in DOMAIN body.fields[j].val
       IN body.fields[i].val.jnumber
  ELSE 0

\* C1: a call whose request got a response with a readable body returns nil
\* exactly when the status decoded from the body is 1, whatever the HTTP
\* status code; status 0, no status or an empty body gives an error
C1_NilIffStatusOne ==
  (pc = "returned" /\ resp.kind = "response")
    => ((ret.kind = "nil") <=> (StatusIn(resp.body) = 1))

\* a call that got HTTP 500 with status 1 in the body and returned nil
C1_Witness ==
  pc = "returned" /\ resp.kind = "response" /\ resp.StatusCode = 500
  /\ StatusIn(resp.body) = 1 /\ ret.kind = "nil"

\* the timestamp lies more than five days before the clock
OlderThanFiveDays(t, clock) ==
  \/ clock.sec - t.sec > FiveDays
  \/ (clock.sec - t.sec = FiveDays /\ clock.nsec > t.nsec)

\* C2: Track uses "import" when the timestamp is set and more than 5 days
\* before now, and "track" when it is nil or at most 5 days old
C2_TrackEndpoint ==
  (call.op = "Track")
    => eventType = (IF call.e.Timestamp.ptr # "nil" /\ OlderThanFiveDays(call.e.Timestamp.t, now)
                    THEN "import" ELSE "track")

\* a Track whose timestamp is exactly five days old, sent to "track"
C2_Witness ==
  /\ call.op = "Track" /\ call.e.Timestamp.ptr = "other"
  /\ call.e.Timestamp.t = Add(now, 0 - FiveDays)
  /\ eventType = "track" /\ pc = "returned"

\* what the claim says of the time keys of an Update's parameter map
TimeKeysAsClaimed(u, ps) ==
  /\ u.Timestamp.ptr = "IgnoreTime"
       => (Has(ps, "$ignore_time") /\ ps["$ignore_time"] = Bool(TRUE) /\ ~Has(ps, "$time"))
  /\ u.Timestamp.ptr = "other"
       => (Has(ps, "$time") /\ ps["$time"] = Num(Unix(u.Timestamp.t)) /\ ~Has(ps, "$ignore_time"))
  /\ u.Timestamp.ptr = "nil"
       => (~Has(ps, "$time") /\ ~Has(ps, "$ignore_time"))

\* C3 as stated: for every Update that sends a request, whatever the operation name, IgnoreTime
\* gives $ignore_time=true and no $time, any other non-nil timestamp gives
\* $time and no $ignore_time, nil gives neither
C3_Original == (call.op = "Update" /\ issued = 1) => TimeKeysAsClaimed(call.u, params)

\* C3 as amended: the same, for every Update whose operation name is neither
\* "$time" nor "$ignore_time"
C3_TimeKeys ==
  (call.op = "Update" /\ issued = 1 /\ call.u.Operation \notin {"$time", "$ignore_time"})
    => TimeKeysAsClaimed(call.u, params)

\* an Update with some other pointer to the zero time, sent with $time
C3_Witness ==
  /\ call.op = "Update" /\ call.u.Operation = "$set" /\ pc = "returned"
  /\ call.u.Timestamp = PtrTo(ZeroTime)
  /\ Has(params, "$time") /\ ~Has(params, "$ignore_time")

\* C4 as stated: the parameter map of every request sent carries the client's Token
\* under "token" (Track, Alias) or "$token" (Update), for every distinct id,
\* event name, operation name and custom property map
TokenCarried ==
  IF call.op = "Update"
  THEN Has(params, "$token") /\ params["$token"] = Str(m.Token)
  ELSE /\ Has(params, "properties") /\ IsMap(params["properties"])
       /\ Has(params["properties"].map, "token")
       /\ params["properties"].map["token"] = Str(m.Token)

C4_Original == (issued = 1) => TokenCarried

\* C4 as amended: the same, for every Alias, every Track whose custom
\* properties have no "token" key and every Update whose operation name is
\* not "$token"
C4_TokenCarried ==
  (/\ issued = 1
   /\ \/ call.op = "Alias"
      \/ (call.op = "Track" /\ ~Has(call.e.Properties, "token"))
      \/ (call.op = "Update" /\ call.u.Operation # "$token"))
    => TokenCarried

\* a Track with a custom property that went out with the token
C4_Witness ==
  /\ pc = "returned" /\ issued = 1 /\ TokenCarried
  /\ call.op = "Track" /\ Has(call.e.Properties, "from")

\* the URL holds the auto-geolocation flag
HasIpFlag(url) == \E i \in DOMAIN url : url[i] = Lit("&ip=1")

\* C5: the request URL of a Track or Update carries "&ip=1" exactly when the
\* IP field is the empty string; the URL of an Alias never carries it
C5_IpFlag ==
  (reqUrl # NoUrl)
    => /\ call.op = "Track" => (HasIpFlag(reqUrl) <=> call.e.IP = "")
       /\ call.op = "Update" => (HasIpFlag(reqUrl) <=> call.u.IP = "")
       /\ call.op = "Alias" => ~HasIpFlag(reqUrl)

\* a Track with IP "0" whose request went out without the flag
C5_Witness ==
  /\ call.op = "Track" /\ call.e.IP = "0" /\ issued = 1 /\ pc = "returned"
  /\ ~HasIpFlag(reqUrl)

\* C6 as stated: every call, whatever its outcome, has issued exactly one
\* request when it returns
C6_Original == (pc = "returned") => issued = 1

\* C6 as amended: no call issues more than one request; a call that returns
\* has issued exactly one, unless serialising the parameter map failed, and
\* then it has issued none; a call blocked in the transport has issued its
\* one request
C6_OneRequest ==
  /\ issued <= 1
  /\ pc = "inDo" => issued = 1
  /\ pc = "returned" => issued = (IF Marshallable(Map(params)) THEN 1 ELSE 0)

\* a call that returned a transport failure after its one request
C6_Witness ==
  pc = "returned" /\ resp.kind = "transportError" /\ issued = 1

\* C8: when the transport fails before any response, or the body cannot be
\* read, the call returns a MixpanelError with the attempted URL, the
\* failure's message, HTTP status 0 and status code 0, never nil
C8_WrappedError ==
  (pc = "returned" /\ resp.kind \in {"transportError", "bodyError"})
    => /\ ret.kind = "MixpanelError"
       /\ ret.URL = reqUrl
       /\ reqUrl = ReqUrl(m, eventType, ToJSON(Map(params)), autoGeolocate)
       /\ ret.Message = resp.err
       /\ ret.HttpStatus = 0
       /\ ret.Code = 0

\* a call whose response arrived with HTTP 200 and an unreadable body
C8_Witness ==
  /\ pc = "returned" /\ resp.kind = "bodyError" /\ resp.StatusCode = 200
  /\ ret.kind = "MixpanelError" /\ ret.HttpStatus = 0

\* decoding the body reports an error
DecodeFails(body) == Unmarshal(body, [Message |-> "", Code |-> 0]).err # ""

\* C9: a non-empty body whose decoding fails makes the call return an error
\* whose message is the decode failure and whose HTTP status is the one
\* received; such a call never returns nil
C9_DecodeFailureIsError ==
  (pc = "returned" /\ resp.kind = "response" /\ BodyLen(resp.body) > 0 /\ DecodeFails(resp.body))
    => /\ ret.kind = "MixpanelError"
       /\ ret.Message = Unmarshal(resp.body, [Message |-> "", Code |-> 0]).err
       /\ ret.HttpStatus = resp.StatusCode

\* C10: when serialising the parameter map fails the call returns that error
\* itself, not a MixpanelError, and no request is formed or issued; any other
\* error returned is a MixpanelError carrying the request URL
C10_MarshalError ==
  (pc = "returned")
    => IF ~Marshallable(Map(params))
       THEN ret = PlainError(MarshalErrText) /\ reqUrl = NoUrl /\ issued = 0 /\ resp = NoResp
       ELSE \/ ret.kind = "nil"
            \/ (ret.kind = "MixpanelError" /\ ret.URL = reqUrl /\ reqUrl # NoUrl)

\* a Track with an unserialisable property that returned the plain error
C10_Witness ==
  /\ pc = "returned" /\ call.op = "Track" /\ Has(call.e.Properties, "from")
  /\ call.e.Properties["from"] = Chan
  /\ ret.kind = "error"

(***************************************************************************)
(* Properties of the Mock.                                                 *)
(***************************************************************************)
\* every record but that of distinctId is as before the step
OthersUntouched(distinctId) ==
  \A o \in DistinctIds \ {distinctId} :
    /\ Has(people', o) <=> Has(people, o)
    /\ Has(people, o) => people'[o] = people[o]

\* the user's top-level fields after an Update: the IP if one was given, the
\* timestamp if it is neither nil nor IgnoreTime, each property given written
\* over the old one, every other property kept; the events untouched
UpdateEffect(old, new, u) ==
  /\ new.IP = (IF u.IP = "" THEN old.IP ELSE u.IP)
  /\ new.Time = (IF u.Timestamp = NilTime \/ u.Timestamp = IgnoreTime THEN old.Time ELSE u.Timestamp)
  /\ DOMAIN new.Properties = DOMAIN old.Properties \cup DOMAIN u.Properties
  /\ \A k \in DOMAIN u.Properties : new.Properties[k] = u.Properties[k]
  /\ \A k \in DOMAIN old.Properties \ DOMAIN u.Properties : new.Properties[k] = old.Properties[k]
  /\ new.Events = old.Events

\* the user's record after a Track: the top-level fields untouched, the
\* sub-record under the event name that of this call, the others untouched
TrackEffect(old, new, eventName, e) ==
  /\ new.IP = old.IP
  /\ new.Time = old.Time
  /\ new.Properties = old.Properties
  /\ DOMAIN new.Events = DOMAIN old.Events \cup {eventName}
  /\ new.Events[eventName].IP = e.IP
  /\ new.Events[eventName].Timestamp = e.Timestamp
  /\ new.Events[eventName].Properties = e.Properties
  /\ \A n \in DOMAIN old.Events \ {eventName} : new.Events[n] = old.Events[n]

C7_Step ==
  \A d \in DistinctIds :
    /\ \A u \in MockUpdates :
         MockUpdate(d, u)
           => /\ Has(people', d)
              /\ UpdateEffect(Person(people, d), people'[d], u)
              /\ OthersUntouched(d)
    /\ \A n \in MockEventNames, e \in MockEvents :
         MockTrack(d, n, e)
           => /\ Has(people', d)
              /\ TrackEffect(Person(people, d), people'[d], n, e)
              /\ OthersUntouched(d)

\* C7: on the Mock, only Update changes a user's top-level ip, timestamp and
\* properties (last non-empty IP, last timestamp neither nil nor IgnoreTime,
\* properties last-write-wins per key); Track changes only the sub-record
\* under its event name for that user, the last Track of a (user, event
\* name) pair winning; no call changes another user's record
C7_MockFrame == [][C7_Step]_vars

\* the state of the example: user "1" updated with IP 127.0.0.1 and
\* custom_field, then tracked "Sign In" from 1.2.3.4
C7_Witness ==
  /\ Has(people, "1") /\ ~Has(people, "2")
  /\ people["1"].IP = "127.0.0.1"
  /\ people["1"].Time = PtrTo(Time(0, 0))
  /\ people["1"].Properties = Put(EmptyMap, "custom_field", Str("cool!"))
  /\ DOMAIN people["1"].Events = {"Sign In"}
  /\ people["1"].Events["Sign In"].IP = "1.2.3.4"
  /\ people["1"].Events["Sign In"].Properties = Put(EmptyMap, "from", Str("email"))

====
